---- MODULE Spec2Model ----
(***************************************************************************)
(* Model of pynab/binaries.py: process() classifies the unclaimed parts    *)
(* with the ordered regex rules and accumulates them by binary name;       *)
(* save() reconciles one accumulation with the binaries table and sets     *)
(* the parts' binary_id.                                                   *)
(*                                                                         *)
(* Strings the code cuts up (names, part counts, subjects) are sequences   *)
(* of one-character strings.  A regex rule is abstracted to the set of     *)
(* subject styles its pattern hits and the named groups it captures; the   *)
(* literal N/M fallback pattern of line 133 is computed on the subject     *)
(* text.  Database calls have their plain meaning (a bulk insert of the    *)
(* given rows, a bulk update of the given ids).                            *)
(***************************************************************************)
EXTENDS Integers, Sequences, FiniteSets, TLC

\* ---------------------------------------------------------------- bounds
\* largest backlog (number of rows of the parts table)
MaxParts == 3
\* number of process() invocations in one behaviour
MaxRuns == 2
\* number of clock advances between invocations
MaxTicks == 1

\* flush threshold of process(); 2000 in the source, scaled down so that a
\* backlog of MaxParts rows reaches it
CHUNK_SIZE == 2

\* Part.binary_id of an unclaimed part (None)
NULL == 0

\* a capture group that did not take part in the match (None)
NoneVal == <<"None">>

\* ------------------------------------------------------- string helpers
Digits == {"0", "1", "2", "3", "4", "5", "6", "7", "8", "9"}

StartsWith(s, pat) == Len(s) >= Len(pat) /\ SubSeq(s, 1, Len(pat)) = pat

\* str.find(c) == -1 for a one-character c
Lacks(s, c) == \A i \in 1..Len(s) : s[i] # c

\* str.replace(old, new): every non-overlapping occurrence, left to right
RECURSIVE Replace(_, _, _)
Replace(s, old, new) ==
    IF s = <<>> THEN <<>>
    ELSE IF StartsWith(s, old)
         THEN new \o Replace(SubSeq(s, Len(old) + 1, Len(s)), old, new)
         ELSE <<Head(s)>> \o Replace(Tail(s), old, new)

\* str.split(c): the pieces between the occurrences of c
RECURSIVE Split(_, _)
Split(s, c) ==
    IF Lacks(s, c) THEN <<s>>
    ELSE LET i == CHOOSE i \in 1..Len(s) : s[i] = c /\ \A j \in 1..(i - 1) : s[j] # c
         IN  <<SubSeq(s, 1, i - 1)>> \o Split(SubSeq(s, i + 1, Len(s)), c)

\* str.strip(): leading and trailing blanks removed
RECURSIVE LStrip(_)
LStrip(s) == IF s # <<>> /\ Head(s) = " " THEN LStrip(Tail(s)) ELSE s

RECURSIVE RStrip(_)
RStrip(s) == IF s # <<>> /\ s[Len(s)] = " " THEN RStrip(SubSeq(s, 1, Len(s) - 1)) ELSE s

Strip(s) == RStrip(LStrip(s))

DigitVal(c) ==
    CASE c = "0" -> 0 [] c = "1" -> 1 [] c = "2" -> 2 [] c = "3" -> 3 [] c = "4" -> 4
      [] c = "5" -> 5 [] c = "6" -> 6 [] c = "7" -> 7 [] c = "8" -> 8 [] c = "9" -> 9

RECURSIVE DecVal(_)
DecVal(s) == IF s = <<>> THEN 0 ELSE 10 * DecVal(SubSeq(s, 1, Len(s) - 1)) + DigitVal(s[Len(s)])

AllDigits(s) == s # <<>> /\ \A i \in 1..Len(s) : s[i] \in Digits

\* int(s): blanks around the literal are allowed, one sign, then digits
IntBody(s) == IF s # <<>> /\ Head(s) \in {"+", "-"} THEN Tail(s) ELSE s

IsInt(s) == AllDigits(IntBody(Strip(s)))

IntVal(s) ==
    LET t == Strip(s)
    IN  IF t # <<>> /\ Head(t) = "-" THEN 0 - DecVal(IntBody(t)) ELSE DecVal(IntBody(t))

\* number of digits (at most 3) starting at position i of s
DigitRun(s, i) ==
    IF i > Len(s) \/ s[i] \notin Digits THEN 0
    ELSE IF i + 1 > Len(s) \/ s[i + 1] \notin Digits THEN 1
    ELSE IF i + 2 > Len(s) \/ s[i + 2] \notin Digits THEN 2
    ELSE 3

\* the match of (\d{1,3}\/\d{1,3}) that starts at position i, or <<>>
NMAt(s, i) ==
    LET heads == {a \in 1..3 : /\ i + a <= Len(s)
                                /\ \A k \in i..(i + a - 1) : s[k] \in Digits
                                /\ s[i + a] = "/"
                                /\ DigitRun(s, i + a + 1) > 0}
    IN  IF heads = {} THEN <<>>
        ELSE LET a == CHOOSE a \in heads : TRUE
             IN  SubSeq(s, i, i + a + DigitRun(s, i + a + 1))

\* regex.search('(\d{1,3}\/\d{1,3})', subject): group(1) of the leftmost
\* match, NoneVal when the pattern is not found
SearchNM(s) ==
    LET starts == {i \in 1..Len(s) : NMAt(s, i) # <<>>}
    IN  IF starts = {} THEN NoneVal
        ELSE NMAt(s, CHOOSE i \in starts : \A j \in starts : i <= j)

\* ------------------------------------------------------------ the data
GroupX == "alt.binaries.x"
GroupY == "alt.binaries.y"
Wildcard == ".*"

\* the clock at the first invocation, in seconds
Now0 == 30 * 60 * 60

\* how far one clock advance moves the clock
TickStep == 2 * 60 * 60

\* A subject: its text, the posting style the rule patterns tell apart, and
\* what a named group name / reqid / parts of a pattern hitting it captures
\* (NoneVal: the group takes no part in the match).
Subject(text, tag, name, reqid, partcount) ==
    [text |-> text, tag |-> tag, name |-> name, reqid |-> reqid, parts |-> partcount]

\* The rows the upstream ingestion can have put in the parts table (all but
\* the id and the binary_id).
PartKinds ==
    { \* "A [1/2]", name captured with a trailing blank, reqid captured empty
      [group_name |-> GroupX, posted |-> Now0 - 4 * 60 * 60, posted_by |-> "poster1",
       xref |-> "x:1",
       subject |-> Subject(<<"A", " ", "[", "1", "/", "2", "]">>, "t1",
                           <<"A", " ">>, <<>>, <<"[", "1", "/", "2", "]">>)],
      \* "A 1/2" in the other group: same name, same index as the first
      [group_name |-> GroupY, posted |-> Now0 - 5 * 60 * 60, posted_by |-> "poster2",
       xref |-> "y:1",
       subject |-> Subject(<<"A", " ", "1", "/", "2">>, "t1",
                           <<"A">>, NoneVal, <<"1", "/", "2">>)],
      \* "A 2-3": same name, another index and another total, no N/M in the text
      [group_name |-> GroupX, posted |-> Now0 - 6 * 60 * 60, posted_by |-> "poster1",
       xref |-> "x:2",
       subject |-> Subject(<<"A", " ", "2", "-", "3">>, "t1",
                           <<"A">>, NoneVal, <<"2", "-", "3">>)],
      \* "B", two hours old, no part count anywhere
      [group_name |-> GroupX, posted |-> Now0 - 2 * 60 * 60, posted_by |-> "poster1",
       xref |-> "x:3",
       subject |-> Subject(<<"B">>, "t2", <<"B">>, NoneVal, NoneVal)],
      \* "B", twenty-six hours old, no part count anywhere
      [group_name |-> GroupX, posted |-> Now0 - 26 * 60 * 60, posted_by |-> "poster2",
       xref |-> "x:4",
       subject |-> Subject(<<"B">>, "t2", <<"B">>, NoneVal, NoneVal)],
      \* "R 1/3": a request id and an empty name
      [group_name |-> GroupY, posted |-> Now0 - 4 * 60 * 60, posted_by |-> "poster2",
       xref |-> "y:2",
       subject |-> Subject(<<"R", " ", "1", "/", "3">>, "t2",
                           <<>>, <<"R">>, NoneVal)],
      \* "C 1/x": a part count whose total is not a number
      [group_name |-> GroupY, posted |-> Now0 - 4 * 60 * 60, posted_by |-> "poster1",
       xref |-> "y:3",
       subject |-> Subject(<<"C", " ", "1", "/", "x">>, "t1",
                           <<"C">>, NoneVal, <<"1", "/", "x">>)] }

\* A row of the regexes table.  regex: whether the pattern compiles, the
\* subject styles it hits and the named groups it has.
Rule(id, ordinal, group, ok, tags, caps) ==
    [id |-> id, ordinal |-> ordinal, group_name |-> group,
     regex |-> [ok |-> ok, tags |-> tags, caps |-> caps]]

RuleUniverse ==
    { Rule(1, 3, Wildcard, TRUE, {"t1", "t2"}, {"name", "reqid", "parts"}),
      Rule(2, 2, GroupX, TRUE, {"t1"}, {"name"}),
      Rule(3, 1, GroupY, TRUE, {"t2"}, {"reqid"}),
      Rule(4, 4, Wildcard, FALSE, {}, {}) }

\* the '' that line 87 puts in the place of a rule of another group
EmptyStr == [str |-> ""]

\* ------------------------------------------------------- the classifier
\* the exceptions that leave process()
\* line 96, reg = '': ''.regex
StrHasNoRegex == "AttributeError: 'str' object has no attribute 'regex'"
\* line 105, inside the except block: Query has no method remove
QueryHasNoRemove == "AttributeError: 'Query' object has no attribute 'remove'"
\* line 150: the split does not give two pieces
UnpackError == "ValueError: unpack"
\* line 164: int(total)
IntError == "ValueError: invalid literal for int()"

\* the log.error lines
BrokenRegex == "binary: broken regex detected"
HorriblyWrong == "something went horribly wrong"

\* dict.get(k)
Get(match, k) == IF k \in DOMAIN match THEN match[k] ELSE NoneVal

\* truth value of a captured string: None and '' are false
Truthy(v) == v # NoneVal /\ v # <<>>

\* match[k] = v
Put(match, k, v) == [g \in DOMAIN match \cup {k} |-> IF g = k THEN v ELSE match[g]]

\* lines 110-114: strip every value; when one is None the comprehension
\* raises and the match is kept as it was
Stripped(match) ==
    IF \E g \in DOMAIN match : match[g] = NoneVal THEN match
    ELSE [g \in DOMAIN match |-> Strip(match[g])]

\* lines 116-118
FillName(match) ==
    IF Truthy(Get(match, "reqid")) /\ ~Truthy(Get(match, "name"))
    THEN Put(match, "name", match["reqid"])
    ELSE match

\* lines 132-135
FindParts(match, text) ==
    IF ~Truthy(Get(match, "parts")) /\ SearchNM(text) # NoneVal
    THEN Put(match, "parts", SearchNM(text))
    ELSE match

\* timediff.seconds of lines 126-127: the seconds field of the timedelta
TimediffSeconds(t, posted) == (t - posted) % (24 * 60 * 60)

\* line 138: timediff.seconds / 60 / 60 > 3
IsOrphan(match, t, posted) ==
    ~Truthy(Get(match, "parts")) /\ TimediffSeconds(t, posted) > 3 * 60 * 60

\* lines 143-148
NormalizePartsKeepBrackets(p) ==
    IF Lacks(p, "/")
    THEN Replace(Replace(Replace(p, <<"-">>, <<"/">>), <<"~">>, <<"/">>),
                 <<" ", "o", "f", " ">>, <<"/">>)
    ELSE p

NormalizeParts(p) ==
    LET q == IF Lacks(p, "/")
             THEN Replace(Replace(Replace(p, <<"-">>, <<"/">>), <<"~">>, <<"/">>),
                          <<" ", "o", "f", " ">>, <<"/">>)
             ELSE p
    IN  Replace(Replace(Replace(Replace(q, <<"[">>, <<>>), <<"]">>, <<>>),
                        <<"(">>, <<>>), <<")">>, <<>>)

Outcome(kind, failure, name, current, total, orphan, regex_id) ==
    [kind |-> kind, failure |-> failure, name |-> name, current |-> current,
     total |-> total, orphan |-> orphan, regex_id |-> regex_id]

NoOutcome(kind, failure) == Outcome(kind, failure, <<>>, <<>>, <<>>, FALSE, 0)

\* lines 150 and 169: the split into current and total, and the break
SplitParts(reg, match, orphan, pieces) ==
    IF Len(pieces) # 2
    THEN Outcome("raise", UnpackError, <<>>, <<>>, <<>>, FALSE, reg.id)
    ELSE Outcome("break", "", match["name"], pieces[1], pieces[2], orphan, reg.id)

\* lines 142-150: a match with a name and a part count is normalised and
\* split, a match without a part count is dropped
WithParts(reg, match, orphan) ==
    IF ~Truthy(Get(match, "parts")) THEN NoOutcome("continue", "")
    ELSE SplitParts(reg, match, orphan, Split(NormalizeParts(match["parts"]), "/"))

\* lines 137-140: the orphan path
WithOrphan(reg, match, orphan) ==
    WithParts(reg, IF orphan THEN Put(match, "parts", <<"0", "0", "/", "0", "0">>) ELSE match,
              orphan)

WithNameUnchecked(reg, part, t, match) ==
    WithOrphan(reg, FindParts(match, part.subject.text),
               IsOrphan(FindParts(match, part.subject.text), t, part.posted))

\* lines 120-135: a match without a name is dropped; the N/M fallback
WithName(reg, part, t, match) ==
    IF ~Truthy(Get(match, "name")) THEN NoOutcome("continue", "")
    ELSE WithOrphan(reg, FindParts(match, part.subject.text),
                    IsOrphan(FindParts(match, part.subject.text), t, part.posted))

\* lines 96-150 and 169 for one entry of relevant_regex: "raise" (the
\* exception leaves process()), "continue" (the next rule is tried) or
\* "break" (the match is accepted)
TryRule(reg, part, t) ==
    IF "regex" \notin DOMAIN reg
    THEN NoOutcome("raise", StrHasNoRegex)
    ELSE IF ~reg.regex.ok
    THEN Outcome("raise", QueryHasNoRemove, <<>>, <<>>, <<>>, FALSE, reg.id)
    ELSE IF part.subject.tag \notin reg.regex.tags \/ reg.regex.caps = {}
    THEN NoOutcome("continue", "")
    ELSE WithName(reg, part, t,
                  FillName(Stripped([g \in reg.regex.caps |-> part.subject[g]])))

\* line 106 and line 169: after "continue" the next rule, otherwise the
\* outcome stands
NextRule(o, rest) == IF o.kind = "continue" THEN rest ELSE o

\* lines 88-169: the rules in list order up to the first that raises or is
\* accepted; "nomatch" when the list is exhausted
RECURSIVE RunRules(_, _, _, _)
RunRules(regs, i, part, t) ==
    IF i > Len(regs) THEN NoOutcome("nomatch", "")
    ELSE NextRule(TryRule(regs[i], part, t), RunRules(regs, i + 1, part, t))

\* line 87
RelevantRegex(regs, part) ==
    [i \in 1..Len(regs) |->
        IF regs[i].group_name = part.group_name \/ regs[i].group_name = Wildcard
        THEN regs[i] ELSE EmptyStr]

\* the rules in the order of their ids: line 84 without its order_by
RECURSIVE SortById(_)
SortById(rs) ==
    IF rs = {} THEN <<>>
    ELSE LET r == CHOOSE r \in rs : \A q \in rs : r.id <= q.id
         IN  <<r>> \o SortById(rs \ {r})

\* order_by(Regex.ordinal) of line 84
RECURSIVE SortByOrdinal(_)
SortByOrdinal(rs) ==
    IF rs = {} THEN <<>>
    ELSE LET r == CHOOSE r \in rs : \A q \in rs : r.ordinal <= q.ordinal
         IN  <<r>> \o SortByOrdinal(rs \ {r})

\* line 84
LoadRegex(regs, groups) ==
    SortByOrdinal({r \in regs : r.group_name \in groups \cup {Wildcard}})

\* ------------------------------------------------------------ storage
\* {}
EmptyDict == [k \in {} |-> 0]

RECURSIVE AscendingTwice(_)
AscendingTwice(S) ==
    IF S = {} THEN <<>>
    ELSE LET m == CHOOSE m \in S : \A k \in S : m <= k
         IN  <<m, m>> \o AscendingTwice(S \ {m})

\* the ids in S in ascending order (the order the parts table returns rows)
RECURSIVE Ascending(_)
Ascending(S) ==
    IF S = {} THEN <<>>
    ELSE LET m == CHOOSE m \in S : \A k \in S : m <= k
         IN  <<m>> \o Ascending(S \ {m})

\* line 83 taken over the parts without a binary only
RelevantGroupsUnclaimed(ptab) ==
    {ptab[i].group_name : i \in {j \in DOMAIN ptab : ptab[j].binary_id = NULL}}

\* line 83
RelevantGroups(ptab) == {ptab[i].group_name : i \in DOMAIN ptab}

\* line 85 without the filter on binary_id
UnclaimedAll(ptab, groups) ==
    Ascending({i \in DOMAIN ptab : ptab[i].group_name \in groups})

\* line 85: the parts of the relevant groups whose binary_id is None
Unclaimed(ptab, groups) ==
    Ascending({i \in DOMAIN ptab : ptab[i].group_name \in groups /\ ptab[i].binary_id = NULL})

\* lines 25-29 and 41-45: name -> row for the rows whose name is among names
Existing(btab, names) ==
    [n \in {b.name : b \in btab} \cap names |-> CHOOSE b \in btab : b.name = n]

\* lines 31-35 without the test of line 34: every entry is inserted
BinaryInsertsAll(bins, existing) == DOMAIN bins

\* lines 31-35: the names of the accumulation that the query did not find
BinaryInserts(bins, existing) == {n \in DOMAIN bins : n \notin DOMAIN existing}

\* line 39: one row per inserted entry, ids handed out in dict order
InsertRows(btab, bins, names) ==
    LET top == IF btab = {} THEN 0
               ELSE CHOOSE m \in {b.id : b \in btab} : \A b \in btab : b.id <= m
        rank(n) == Cardinality({k \in names : bins[k].seq <= bins[n].seq})
    IN  btab \cup { [id |-> top + rank(n), name |-> bins[n].name, posted |-> bins[n].posted,
                     posted_by |-> bins[n].posted_by, group_name |-> bins[n].group_name,
                     xref |-> bins[n].xref, regex_id |-> bins[n].regex_id,
                     total_parts |-> bins[n].total_parts] : n \in names }

\* lines 47-52 without the test of line 50: a name the second query did not
\* find gets its updates too, with a null binary id
UpdateListUnchecked(bins, existing) ==
    UNION { { [_id |-> bins[n].parts[c],
               _binary_id |-> IF n \in DOMAIN existing THEN existing[n].id ELSE NULL] :
                c \in DOMAIN bins[n].parts } :
            n \in DOMAIN bins }

\* lines 47-52: the ownership updates of the names the second query found
UpdateList(bins, existing) ==
    UNION { { [_id |-> bins[n].parts[c], _binary_id |-> existing[n].id] :
                c \in DOMAIN bins[n].parts } :
            n \in DOMAIN bins \cap DOMAIN existing }

\* lines 53-54: one error per name the second query did not find
SaveErrors(bins, existing) ==
    { [msg |-> HorriblyWrong, about |-> n] :
        n \in DOMAIN bins \ DOMAIN existing }

\* lines 56-57
ApplyUpdates(ptab, ups) ==
    [i \in DOMAIN ptab |->
        IF \E u \in ups : u._id = i
        THEN [ptab[i] EXCEPT !.binary_id = (CHOOSE u \in ups : u._id = i)._binary_id]
        ELSE ptab[i]]

\* lines 24-39 as a replace: the stored rows of the accumulated names are
\* dropped and every entry is inserted
SaveReplaced(btab, bins) ==
    InsertRows({b \in btab : b.name \notin DOMAIN bins}, bins, DOMAIN bins)

\* lines 24-39
SaveInserted(btab, bins) ==
    InsertRows(btab, bins, BinaryInserts(bins, Existing(btab, DOMAIN bins)))

\* lines 41-57 on the table after the insert, found being the second query
SaveUpdated(btab, ptab, bins, found) ==
    [store |-> btab,
     update_parts |-> UpdateList(bins, found),
     parts |-> ApplyUpdates(ptab, UpdateList(bins, found)),
     errors |-> SaveErrors(bins, found)]

\* lines 15-57 in one piece
Save(btab, ptab, bins) ==
    SaveUpdated(SaveInserted(btab, bins), ptab, bins,
                Existing(SaveInserted(btab, bins), DOMAIN bins))

\* ----------------------------------------------------- the aggregator
\* lines 154-168: "raise" when int(total) fails for a new name
CanAggregate(bins, o) == o.name \in DOMAIN bins \/ IsInt(o.total)

AttachKeepFirst(pmap, o, part) ==
    IF o.current \in DOMAIN pmap THEN pmap ELSE Put(pmap, o.current, part.id)

\* line 156: binaries[name]['parts'][current] = part
Attach(pmap, o, part) == Put(pmap, o.current, part.id)

AggregateRevising(bins, o, part) ==
    IF o.name \in DOMAIN bins
    THEN [bins EXCEPT ![o.name].parts = Attach(@, o, part),
                      ![o.name].regex_id = o.regex_id,
                      ![o.name].posted_by = part.posted_by,
                      ![o.name].xref = part.xref]
    ELSE Put(bins, o.name,
             [name |-> o.name, posted |-> part.posted, posted_by |-> part.posted_by,
              group_name |-> part.group_name, xref |-> part.xref,
              regex_id |-> o.regex_id, total_parts |-> IntVal(o.total),
              parts |-> Put(EmptyDict, o.current, part.id),
              seq |-> Cardinality(DOMAIN bins) + 1])

Aggregate(bins, o, part) ==
    IF o.name \in DOMAIN bins
    THEN [bins EXCEPT ![o.name].parts = Attach(@, o, part)]
    ELSE Put(bins, o.name,
             [name |-> o.name, posted |-> part.posted, posted_by |-> part.posted_by,
              group_name |-> part.group_name, xref |-> part.xref,
              regex_id |-> o.regex_id, total_parts |-> IntVal(o.total),
              parts |-> Put(EmptyDict, o.current, part.id),
              seq |-> Cardinality(DOMAIN bins) + 1])

\* line 164: int(total) raises for a new name whose total is no number
Checked(bins, o) ==
    IF o.kind = "break" /\ ~CanAggregate(bins, o)
    THEN [o EXCEPT !.kind = "raise", !.failure = IntError]
    ELSE o

\* lines 86-169 for one part: the outcome of the rule loop and of the
\* aggregation
Classify(regs, part, bins, t) ==
    Checked(bins, RunRules(RelevantRegex(regs, part), 1, part, t))

\* ------------------------------------------------------------- the state
VARIABLES
    parts,            \* the parts table: id -> row
    regexes,          \* the regexes table
    store,            \* the binaries table
    now,              \* the clock, in seconds
    pc,               \* "idle", "loop", "inserted", "done", "failed"
    all_regex,        \* process(): the rules loaded at line 84
    stream,           \* process(): the part ids of line 85 not yet visited
    binaries,         \* process(): the accumulation, name -> entry
    orphan_binaries,  \* process(): the names taken by the orphan path
    count,            \* process(): line 70
    total_processed,  \* process(): line 71
    total_binaries,   \* process(): line 72
    update_parts,     \* save(): the updates of the last flush
    log,              \* the log.error lines written
    failure,          \* the exception that ended the run, "" if none
    matched,          \* part id -> outcome of its classification in this run
    saves,            \* the sizes of the accumulations handed to save() in this run
    runs,             \* invocations of process() so far
    ticks,            \* clock advances so far
    started,          \* the clock when the last run started
    prev              \* the tables as the previous run left them

vars == <<parts, regexes, store, now, pc, all_regex, stream, binaries, orphan_binaries,
          count, total_processed, total_binaries, update_parts, log, failure, matched,
          saves, runs, ticks, started, prev>>

Owners(ptab) == [i \in DOMAIN ptab |-> ptab[i].binary_id]

Init ==
    /\ \E n \in 0..MaxParts : \E kinds \in [1..n -> PartKinds] :
          parts = [i \in 1..n |->
                     [id |-> i, group_name |-> kinds[i].group_name,
                      subject |-> kinds[i].subject, posted |-> kinds[i].posted,
                      posted_by |-> kinds[i].posted_by, xref |-> kinds[i].xref,
                      binary_id |-> NULL]]
    /\ regexes \in SUBSET RuleUniverse
    /\ store = {}
    /\ now = Now0
    /\ pc = "idle"
    /\ all_regex = <<>>
    /\ stream = <<>>
    /\ binaries = EmptyDict
    /\ orphan_binaries = <<>>
    /\ count = 0
    /\ total_processed = 0
    /\ total_binaries = 0
    /\ update_parts = {}
    /\ log = {}
    /\ failure = ""
    /\ matched = EmptyDict
    /\ saves = <<>>
    /\ runs = 0
    /\ ticks = 0
    /\ started = Now0
    /\ prev = [valid |-> FALSE, store |-> {}, owners |-> <<>>]

\* process() is invoked: lines 66-85
Start ==
    /\ pc \in {"idle", "done", "failed"}
    /\ runs < MaxRuns
    /\ runs' = runs + 1
    /\ all_regex' = LoadRegex(regexes, RelevantGroups(parts))
    /\ stream' = Unclaimed(parts, RelevantGroups(parts))
    /\ binaries' = EmptyDict
    /\ orphan_binaries' = <<>>
    /\ count' = 0
    /\ total_processed' = 0
    /\ total_binaries' = 0
    /\ failure' = ""
    /\ matched' = EmptyDict
    /\ saves' = <<>>
    /\ started' = now
    /\ prev' = [valid |-> runs > 0 /\ started = now, store |-> store, owners |-> Owners(parts)]
    /\ pc' = "loop"
    /\ UNCHANGED <<parts, regexes, store, now, update_parts, log, ticks>>

\* lines 171-175: the flush at a chunk boundary, sv being what save() does
\* with the accumulation acc
Flush(acc, sv) ==
    IF count >= CHUNK_SIZE
    THEN /\ store' = sv.store
         /\ parts' = sv.parts
         /\ update_parts' = sv.update_parts
         /\ log' = log \cup sv.errors
         /\ saves' = Append(saves, Cardinality(DOMAIN acc))
         /\ count' = 0
         /\ total_binaries' = total_binaries + Cardinality(DOMAIN acc)
         /\ binaries' = EmptyDict
    ELSE /\ binaries' = acc
         /\ UNCHANGED <<log, store, parts, update_parts, count, total_binaries, saves>>

\* lines 86-175 for the part at the head of the stream, o being the outcome
\* of its classification
StepPart(part, o) ==
    /\ total_processed' = total_processed + 1
    /\ stream' = Tail(stream)
    /\ matched' = Put(matched, part.id, o)
    /\ orphan_binaries' = IF o.orphan THEN Append(orphan_binaries, o.name)
                          ELSE orphan_binaries
    /\ IF o.kind = "raise"
       THEN /\ pc' = "failed"
            /\ failure' = o.failure
            /\ log' = IF o.failure = QueryHasNoRemove
                      THEN log \cup {[msg |-> BrokenRegex, about |-> o.regex_id]}
                      ELSE log
            /\ UNCHANGED <<binaries, store, parts, update_parts, count,
                           total_binaries, saves>>
       ELSE IF o.kind = "break"
       THEN /\ Flush(Aggregate(binaries, o, part),
                     Save(store, parts, Aggregate(binaries, o, part)))
            /\ UNCHANGED <<pc, failure>>
       ELSE /\ Flush(binaries, Save(store, parts, binaries))
            /\ UNCHANGED <<pc, failure>>

\* one iteration of the loop of line 85: lines 86-175
Step ==
    /\ pc = "loop"
    /\ stream # <<>>
    /\ StepPart(parts[Head(stream)], Classify(all_regex, parts[Head(stream)], binaries, now))
    /\ UNCHANGED <<regexes, now, all_regex, runs, ticks, started, prev>>

\* lines 177-178 with the final save() made only for a full chunk: a smaller
\* accumulation is dropped and the run ends
SaveInsertIfFull ==
    /\ pc = "loop"
    /\ stream = <<>>
    /\ total_binaries' = total_binaries + Cardinality(DOMAIN binaries)
    /\ IF Cardinality(DOMAIN binaries) >= CHUNK_SIZE
       THEN /\ saves' = Append(saves, Cardinality(DOMAIN binaries))
            /\ store' = SaveInserted(store, binaries)
            /\ pc' = "inserted"
       ELSE /\ pc' = "done"
            /\ UNCHANGED <<saves, store>>
    /\ UNCHANGED <<parts, regexes, now, all_regex, stream, binaries, orphan_binaries, count,
                   total_processed, update_parts, log, failure, matched, runs, ticks,
                   started, prev>>

\* the stream is exhausted: line 177 and the first half of save(), lines 24-39
SaveInsert ==
    /\ pc = "loop"
    /\ stream = <<>>
    /\ total_binaries' = total_binaries + Cardinality(DOMAIN binaries)
    /\ saves' = Append(saves, Cardinality(DOMAIN binaries))
    /\ store' = SaveInserted(store, binaries)
    /\ pc' = "inserted"
    /\ UNCHANGED <<parts, regexes, now, all_regex, stream, binaries, orphan_binaries, count,
                   total_processed, update_parts, log, failure, matched, runs, ticks,
                   started, prev>>

\* the second half of save(), lines 41-57, and the end of process()
SaveUpdate ==
    /\ pc = "inserted"
    /\ update_parts' = UpdateList(binaries, Existing(store, DOMAIN binaries))
    /\ parts' = ApplyUpdates(parts, update_parts')
    /\ log' = log \cup SaveErrors(binaries, Existing(store, DOMAIN binaries))
    /\ pc' = "done"
    /\ UNCHANGED <<regexes, store, now, all_regex, stream, binaries, orphan_binaries, count,
                   total_processed, total_binaries, failure, matched, saves, runs, ticks,
                   started, prev>>

\* time passes between two invocations
Tick ==
    /\ pc \in {"idle", "done", "failed"}
    /\ runs < MaxRuns
    /\ ticks < MaxTicks
    /\ ticks' = ticks + 1
    /\ now' = now + TickStep
    /\ UNCHANGED <<parts, regexes, store, pc, all_regex, stream, binaries, orphan_binaries,
                   count, total_processed, total_binaries, update_parts, log, failure,
                   matched, saves, runs, started, prev>>

Next == Start \/ Step \/ SaveInsert \/ SaveUpdate \/ Tick

Spec == Init /\ [][Next]_vars

\* ------------------------------------------------- save() on its own
\* save() entered with any accumulation a run can hand it (every part under
\* at most one name and index) over any binaries table, at its first line
\* or after line 39; the latter includes tables that did not keep a row
\* of an accumulated name, the case lines 53-54 are written for.
SaveNames == {<<"A">>, <<"B">>}
SaveIndexes == {<<"1">>, <<"2">>}

\* the accumulation in which part i sits at slot[i] = <<name, index>>
SaveAccumulation(ptab, slot) ==
    LET used == {slot[i][1] : i \in {j \in DOMAIN slot : slot[j] # <<>>}}
        first(n) == CHOOSE i \in DOMAIN slot :
                        /\ slot[i] # <<>> /\ slot[i][1] = n
                        /\ \A j \in DOMAIN slot : (slot[j] # <<>> /\ slot[j][1] = n) => i <= j
    IN  [n \in used |->
            [name |-> n, posted |-> ptab[first(n)].posted,
             posted_by |-> ptab[first(n)].posted_by,
             group_name |-> ptab[first(n)].group_name, xref |-> ptab[first(n)].xref,
             regex_id |-> 1, total_parts |-> 2,
             parts |-> [c \in {slot[i][2] : i \in {j \in DOMAIN slot : slot[j] # <<>> /\ slot[j][1] = n}}
                          |-> CHOOSE i \in DOMAIN slot : slot[i] = <<n, c>>],
             seq |-> Cardinality({m \in used : first(m) <= first(n)})]]

SaveRow(id, n) ==
    [id |-> id, name |-> n, posted |-> Now0, posted_by |-> "poster1", group_name |-> GroupX,
     xref |-> "x:0", regex_id |-> 1, total_parts |-> 2]

SaveInit ==
    /\ \E n \in 1..MaxParts : \E k \in PartKinds :
          parts = [i \in 1..n |->
                     [id |-> i, group_name |-> k.group_name, subject |-> k.subject,
                      posted |-> k.posted, posted_by |-> k.posted_by, xref |-> k.xref,
                      binary_id |-> NULL]]
    /\ \E slot \in [DOMAIN parts -> {<<>>} \cup (SaveNames \X SaveIndexes)] :
          /\ \A i \in DOMAIN slot : \A j \in DOMAIN slot :
                (slot[i] # <<>> /\ slot[i] = slot[j]) => i = j
          /\ binaries = SaveAccumulation(parts, slot)
    /\ store \in SUBSET {SaveRow(1, <<"A">>), SaveRow(2, <<"B">>)}
    /\ pc \in {"loop", "inserted"}
    /\ regexes = {}
    /\ now = Now0
    /\ all_regex = <<>>
    /\ stream = <<>>
    /\ orphan_binaries = <<>>
    /\ count = 0
    /\ total_processed = Cardinality(DOMAIN parts)
    /\ total_binaries = IF pc = "loop" THEN 0 ELSE Cardinality(DOMAIN binaries)
    /\ update_parts = {}
    /\ log = {}
    /\ failure = ""
    /\ matched = EmptyDict
    /\ saves = IF pc = "loop" THEN <<>> ELSE <<Cardinality(DOMAIN binaries)>>
    /\ runs = 1
    /\ ticks = 0
    /\ started = Now0
    /\ prev = [valid |-> FALSE, store |-> {}, owners |-> <<>>]

SaveNext == SaveInsert \/ SaveUpdate

SaveSpec == SaveInit /\ [][SaveNext]_vars

\* ------------------------------------------- the classifier's corner cases
\* largest backlog of the runs over the corner cases
MaxEdgeParts == 2

\* Rows whose subjects carry the part counts and name fields the classifier
\* has a branch for.
EdgeKinds ==
    { \* "A (3 of 5)": the word of between blanks, in parentheses
      [group_name |-> GroupX, posted |-> Now0 - 4 * 60 * 60, posted_by |-> "poster1",
       xref |-> "x:10",
       subject |-> Subject(<<"A", " ", "(", "3", " ", "o", "f", " ", "5", ")">>, "t2",
                           <<"A">>, NoneVal, <<"(", "3", " ", "o", "f", " ", "5", ")">>)],
      \* "A [01/20]": a leading zero in the index
      [group_name |-> GroupX, posted |-> Now0 - 4 * 60 * 60, posted_by |-> "poster2",
       xref |-> "x:11",
       subject |-> Subject(<<"A", " ", "[", "0", "1", "/", "2", "0", "]">>, "t2",
                           <<"A">>, <<>>, <<"0", "1", "/", "2", "0">>)],
      \* "A 1-2": a hyphen for the separator
      [group_name |-> GroupX, posted |-> Now0 - 4 * 60 * 60, posted_by |-> "poster1",
       xref |-> "x:12",
       subject |-> Subject(<<"A", " ", "1", "-", "2">>, "t2",
                           <<"A">>, NoneVal, <<"1", "-", "2">>)],
      \* "A 1~2": a tilde for the separator
      [group_name |-> GroupX, posted |-> Now0 - 4 * 60 * 60, posted_by |-> "poster2",
       xref |-> "x:13",
       subject |-> Subject(<<"A", " ", "1", "~", "2">>, "t2",
                           <<"A">>, <<>>, <<"1", "~", "2">>)],
      \* "A [1/2]": brackets captured with the count
      [group_name |-> GroupX, posted |-> Now0 - 4 * 60 * 60, posted_by |-> "poster1",
       xref |-> "x:14",
       subject |-> Subject(<<"A", " ", "[", "1", "/", "2", "]">>, "t2",
                           <<"A">>, NoneVal, <<"[", "1", "/", "2", "]">>)],
      \* "A 1-2/3": a hyphen beside the separator
      [group_name |-> GroupX, posted |-> Now0 - 4 * 60 * 60, posted_by |-> "poster2",
       xref |-> "x:15",
       subject |-> Subject(<<"A", " ", "1", "-", "2", "/", "3">>, "t2",
                           <<"A">>, NoneVal, <<"1", "-", "2", "/", "3">>)],
      \* "A 1/x": a total that is no number
      [group_name |-> GroupX, posted |-> Now0 - 4 * 60 * 60, posted_by |-> "poster1",
       xref |-> "x:16",
       subject |-> Subject(<<"A", " ", "1", "/", "x">>, "t2",
                           <<"A">>, NoneVal, <<"1", "/", "x">>)],
      \* "A 1/2/3": two separators
      [group_name |-> GroupX, posted |-> Now0 - 4 * 60 * 60, posted_by |-> "poster2",
       xref |-> "x:17",
       subject |-> Subject(<<"A", " ", "1", "/", "2", "/", "3">>, "t2",
                           <<"A">>, NoneVal, <<"1", "/", "2", "/", "3">>)],
      \* "A 12": no separator at all
      [group_name |-> GroupX, posted |-> Now0 - 4 * 60 * 60, posted_by |-> "poster1",
       xref |-> "x:18",
       subject |-> Subject(<<"A", " ", "1", "2">>, "t2",
                           <<"A">>, NoneVal, <<"1", "2">>)],
      \* "R 1/2": a request id and an empty name
      [group_name |-> GroupX, posted |-> Now0 - 4 * 60 * 60, posted_by |-> "poster2",
       xref |-> "x:19",
       subject |-> Subject(<<"R", " ", "1", "/", "2">>, "t2",
                           <<>>, <<"R">>, <<"1", "/", "2">>)],
      \* " 1/2": neither a name nor a request id
      [group_name |-> GroupX, posted |-> Now0 - 4 * 60 * 60, posted_by |-> "poster1",
       xref |-> "x:20",
       subject |-> Subject(<<" ", "1", "/", "2">>, "t2",
                           <<>>, <<>>, <<"1", "/", "2">>)],
      \* "A 1/2": the style the name-only rule hits
      [group_name |-> GroupX, posted |-> Now0 - 4 * 60 * 60, posted_by |-> "poster2",
       xref |-> "x:21",
       subject |-> Subject(<<"A", " ", "1", "/", "2">>, "t1",
                           <<"A">>, NoneVal, <<"1", "/", "2">>)],
      \* "R 1/2": that style with a request id and an empty name
      [group_name |-> GroupX, posted |-> Now0 - 4 * 60 * 60, posted_by |-> "poster1",
       xref |-> "x:22",
       subject |-> Subject(<<"R", " ", "1", "/", "2">>, "t1",
                           <<>>, <<"R">>, <<"1", "/", "2">>)] }

\* the wildcard rule with all three groups and, before it, the rule of the
\* group that has a name group only
EdgeRules ==
    { Rule(1, 3, Wildcard, TRUE, {"t1", "t2"}, {"name", "reqid", "parts"}),
      Rule(2, 2, GroupX, TRUE, {"t1"}, {"name"}) }

EdgeInit ==
    /\ \E n \in 1..MaxEdgeParts : \E kinds \in [1..n -> EdgeKinds] :
          parts = [i \in 1..n |->
                     [id |-> i, group_name |-> kinds[i].group_name,
                      subject |-> kinds[i].subject, posted |-> kinds[i].posted,
                      posted_by |-> kinds[i].posted_by, xref |-> kinds[i].xref,
                      binary_id |-> NULL]]
    /\ regexes = EdgeRules
    /\ store = {}
    /\ now = Now0
    /\ pc = "idle"
    /\ all_regex = <<>>
    /\ stream = <<>>
    /\ binaries = EmptyDict
    /\ orphan_binaries = <<>>
    /\ count = 0
    /\ total_processed = 0
    /\ total_binaries = 0
    /\ update_parts = {}
    /\ log = {}
    /\ failure = ""
    /\ matched = EmptyDict
    /\ saves = <<>>
    /\ runs = 0
    /\ ticks = 0
    /\ started = Now0
    /\ prev = [valid |-> FALSE, store |-> {}, owners |-> <<>>]

EdgeSpec == EdgeInit /\ [][Next]_vars

\* ------------------------------------------------------------ C1 .. C10
\* line 87 as a filter: the rules of the part's group and of the wildcard
InScope(reg, part) == reg.group_name = part.group_name \/ reg.group_name = Wildcard

ScopedRules(regs, part) ==
    LET Keep(reg) == InScope(reg, part) IN SelectSeq(regs, Keep)

\* the binaries of the rows b of the table with the name n
Named(btab, n) == {b \in btab : b.name = n}

\* the part ids attached in the accumulation entry e
Attached(e) == {e.parts[c] : c \in DOMAIN e.parts}

\* C1: when save() has returned, every part that produced an accepted match
\* in this run has a non-null binary_id that refers to the stored binary
\* whose name is the match's name.
C1_CompletenessOfClaim ==
    pc = "done" =>
        \A i \in DOMAIN matched :
            matched[i].kind = "break" =>
                /\ parts[i].binary_id # NULL
                /\ \E b \in store : b.id = parts[i].binary_id /\ b.name = matched[i].name

\* C2: a second run over the same backlog with the same clock leaves the
\* binaries table and the part-to-binary assignments as the first run left
\* them: it inserts no binary and sets no binary_id.
C2_Idempotence ==
    (pc = "done" /\ prev.valid) => store = prev.store /\ Owners(parts) = prev.owners

\* C3: the binaries table holds at most one row per name, in every state of
\* every sequence of runs.
C3_UniqueNames == \A a \in store : \A b \in store : a.name = b.name => a = b

\* C3, witness: a second run has flushed a name whose binary an earlier run
\* created, and its part was assigned.
C3_Witness ==
    /\ pc = "done"
    /\ runs = 2
    /\ \E n \in DOMAIN binaries :
          /\ Named(prev.store, n) # {}
          /\ \E i \in Attached(binaries[n]) : parts[i].binary_id # NULL

\* C4: a flush happens every CHUNK_SIZE processed parts and once more at the
\* end of the stream: while the loop runs save() has been invoked once per
\* full chunk, and a finished run has invoked it once more.
C4_Chunking ==
    /\ pc = "loop" => Len(saves) = total_processed \div CHUNK_SIZE
    /\ pc = "done" => Len(saves) = total_processed \div CHUNK_SIZE + 1

\* a step in which save() issues its updates
Flushing ==
    \/ pc = "inserted" /\ pc' = "done"
    \/ pc = "loop" /\ pc' = "loop" /\ saves' # saves

\* C5: a binary_id that is set is never cleared nor changed, and only parts
\* whose binary_id is null are streamed and updated.
C5_WriteOnce ==
    [][ /\ \A i \in DOMAIN parts :
              parts[i].binary_id # NULL => parts'[i].binary_id = parts[i].binary_id
        /\ \A k \in 1..Len(stream') : parts[stream'[k]].binary_id = NULL
        /\ Flushing => \A u \in update_parts' : parts[u._id].binary_id = NULL ]_vars

\* C5, witness: a second run has updated parts while other parts were
\* already claimed by the first.
C5_Witness ==
    /\ pc = "done"
    /\ runs = 2
    /\ \E i \in DOMAIN parts : prev.owners[i] # NULL
    /\ \E u \in update_parts : prev.owners[u._id] = NULL /\ parts[u._id].binary_id # NULL

\* C6: every ownership update save() issues is for a part of the
\* accumulation and carries the id of a row that was stored before the
\* update step under the name the part is attached under; inserting changes
\* no part; and a name the second query does not find gets no update (its
\* parts keep a null binary_id) and an error in the log.
C6_ResolvedBeforeUpdate ==
    [][ /\ (pc = "loop" /\ pc' = "inserted") => parts' = parts
        /\ (pc = "inserted" /\ pc' = "done") =>
              /\ \A u \in update_parts' :
                    \E n \in DOMAIN binaries :
                        /\ u._id \in Attached(binaries[n])
                        /\ \E b \in Named(store, n) : b.id = u._binary_id
              /\ \A i \in DOMAIN parts :
                    parts'[i].binary_id # parts[i].binary_id =>
                        \E u \in update_parts' : u._id = i /\ u._binary_id = parts'[i].binary_id
              /\ \A n \in DOMAIN binaries :
                    Named(store, n) = {} =>
                        /\ \A i \in Attached(binaries[n]) :
                              /\ parts'[i].binary_id = NULL
                              /\ \A u \in update_parts' : u._id # i
                        /\ [msg |-> HorriblyWrong, about |-> n] \in log' ]_vars

\* C6, witness: one flush has left a name unresolved, logged it and kept its
\* part unclaimed, and has assigned the part of another name to the stored
\* row of that name.
C6_Witness ==
    /\ pc = "done"
    /\ \E n \in DOMAIN binaries :
          /\ Named(store, n) = {}
          /\ [msg |-> HorriblyWrong, about |-> n] \in log
          /\ \E i \in Attached(binaries[n]) : parts[i].binary_id = NULL
    /\ \E n \in DOMAIN binaries : \E b \in Named(store, n) :
          \E u \in update_parts : u._id \in Attached(binaries[n]) /\ u._binary_id = b.id

\* the in-scope rules that accept the part on their own
Accepting(part, t) ==
    {r \in regexes : InScope(r, part) /\ TryRule(r, part, t).kind = "break"}

\* the loaded rules that are tried before the rule r
Earlier(r) == {q \in regexes : q.ordinal < r.ordinal /\ \E k \in 1..Len(all_regex) : all_regex[k] = q}

\* C7: an accepted match comes from the lowest-ordinal in-scope rule that
\* accepts the part, with that rule's name, index and total; and when every
\* rule before that one rejects the part, no rule after it is evaluated, so
\* none of them can end the run.
C7_FirstMatchWins ==
    \A i \in DOMAIN matched :
        LET part == parts[i]
            acc == Accepting(part, started)
            o == matched[i]
        IN  /\ o.kind = "break" =>
                  \E r \in acc :
                      /\ \A q \in acc : r.ordinal <= q.ordinal
                      /\ o.regex_id = r.id
                      /\ o = TryRule(r, part, started)
            /\ \A r \in acc :
                  (\A q \in Earlier(r) : InScope(q, part) /\ TryRule(q, part, started).kind = "continue")
                      => o.regex_id = r.id /\ o.failure \in {"", IntError}

\* C7, witness: two in-scope rules of different ordinal accept the same
\* part, the one with the lower ordinal has the higher id, and a broken rule
\* comes after both.
C7_Witness ==
    \E i \in DOMAIN matched :
        /\ matched[i].kind = "break"
        /\ \E r \in Accepting(parts[i], started) : \E w \in Accepting(parts[i], started) :
              /\ w.id = matched[i].regex_id
              /\ r.ordinal > w.ordinal
              /\ r.id < w.id
        /\ \E k \in 1..Len(all_regex) : ~all_regex[k].regex.ok

\* C8: a rule of another group is skipped: the outcome for a part is the
\* outcome of the rule loop over the rules of its group and of the wildcard.
C8_ScopeFiltering ==
    \A i \in DOMAIN matched :
        \/ matched[i].failure = IntError
        \/ matched[i] = RunRules(ScopedRules(all_regex, parts[i]), 1, parts[i], started)

\* C9: a rule whose pattern does not compile is deleted and logged, and the
\* run goes on.
C9_CompileErrorRecovery ==
    /\ \A e \in log : e.msg = BrokenRegex => \A r \in regexes : r.id # e.about
    /\ failure # QueryHasNoRemove

\* C10: save() inserts one row for each accumulated name the table lacks and
\* no other; rows already stored stay as they are; and the parts accumulated
\* under a name get the id of the one row of that name.
C10_InsertOnlyAbsent ==
    [][ /\ store \subseteq store'
        /\ (pc = "loop" /\ pc' = "inserted") =>
              /\ {b.name : b \in store' \ store} = {n \in DOMAIN binaries : Named(store, n) = {}}
              /\ \A n \in DOMAIN binaries : Cardinality(Named(store', n)) = 1
              /\ \A b \in store' \ store :
                    LET e == binaries[b.name]
                    IN  /\ b.posted = e.posted /\ b.posted_by = e.posted_by
                        /\ b.group_name = e.group_name /\ b.xref = e.xref
                        /\ b.regex_id = e.regex_id /\ b.total_parts = e.total_parts
        /\ (pc = "inserted" /\ pc' = "done") =>
              \A n \in DOMAIN binaries : \A i \in Attached(binaries[n]) :
                  \E b \in Named(store, n) : parts'[i].binary_id = b.id ]_vars

\* C10, witness: a run has flushed a name whose row an earlier run created
\* from another part with another total, and the new part has the id of
\* that row.
C10_Witness ==
    /\ pc = "done"
    /\ \E n \in DOMAIN binaries : \E b \in Named(prev.store, n) :
          /\ b.total_parts # binaries[n].total_parts
          /\ b.xref # binaries[n].xref
          /\ b \in store
          /\ \E i \in Attached(binaries[n]) : parts[i].binary_id = b.id

\* ----------------------------------------------------------- C11 .. C19
\* C11: a run whose stream is exhausted hands the accumulation that remains
\* to save() exactly once, whatever its size, before it ends; when it ends
\* every part of that accumulation has the id of the row of its name.
C11_FinalFlush ==
    [][ /\ (pc = "loop" /\ stream = <<>> /\ pc' # pc) =>
              /\ pc' = "inserted"
              /\ saves' = Append(saves, Cardinality(DOMAIN binaries))
              /\ binaries' = binaries
        /\ pc = "inserted" => saves' = saves /\ binaries' = binaries
        /\ (pc # "done" /\ pc' = "done") =>
              /\ pc = "inserted"
              /\ \A n \in DOMAIN binaries : \A i \in Attached(binaries[n]) :
                    \E b \in Named(store', n) : parts'[i].binary_id = b.id ]_vars

\* C11, witness: a run has ended after one flush of an accumulation smaller
\* than CHUNK_SIZE, and the parts of it are claimed.
C11_Witness ==
    /\ pc = "done"
    /\ Cardinality(DOMAIN binaries) > 0
    /\ Cardinality(DOMAIN binaries) < CHUNK_SIZE
    /\ saves = <<Cardinality(DOMAIN binaries)>>
    /\ \A n \in DOMAIN binaries : \A i \in Attached(binaries[n]) : parts[i].binary_id # NULL

\* lines 108-118: the field map of the rule reg on the part after the
\* stripping and the promotion of the request id
Fields(reg, part) == FillName(Stripped([g \in reg.regex.caps |-> part.subject[g]]))

\* the rule reg hits the part
Hits(reg, part) ==
    reg.regex.ok /\ part.subject.tag \in reg.regex.tags /\ reg.regex.caps # {}

\* the rule's match on the part has a name, no part count, and the subject
\* holds no N/M
NamedWithoutCount(reg, part) ==
    /\ Hits(reg, part)
    /\ Truthy(Get(Fields(reg, part), "name"))
    /\ ~Truthy(Get(Fields(reg, part), "parts"))
    /\ SearchNM(part.subject.text) = NoneVal

\* C12: for a match with a name, no part count and no N/M in the subject,
\* the rule is accepted with the part count 00/00 and the name is put on the
\* orphan list whenever the part is more than 3 hours old, at any age beyond
\* that; a part of at most 3 hours is not accepted by the rule.
C12_OrphanPath ==
    \A i \in DOMAIN matched : \A r \in regexes :
        (InScope(r, parts[i]) /\ NamedWithoutCount(r, parts[i])) =>
            IF started - parts[i].posted > 3 * 60 * 60
            THEN /\ TryRule(r, parts[i], started) =
                       Outcome("break", "", Fields(r, parts[i])["name"],
                               <<"0", "0">>, <<"0", "0">>, TRUE, r.id)
                 /\ matched[i].kind # "nomatch"
                 /\ matched[i].regex_id = r.id =>
                       \E k \in 1..Len(orphan_binaries) : orphan_binaries[k] = matched[i].name
            ELSE /\ TryRule(r, parts[i], started).kind = "continue"
                 /\ matched[i].regex_id # r.id


\* the stripped named groups of a hit, before the name is filled in
Captured(reg, part) == Stripped([g \in reg.regex.caps |-> part.subject[g]])

\* C13: every accepted match has a non-empty name. No key of the
\* accumulation and no stored binary has an empty or missing name; a match
\* accepted by a rule carries the rule's name group when that is non-empty
\* and otherwise the rule's non-empty reqid group; a rule whose hit has
\* neither is passed over, and one whose hit has a reqid and a part count
\* is not.
C13_NonEmptyName ==
    /\ \A n \in DOMAIN binaries : Truthy(n)
    /\ \A b \in store : Truthy(b.name)
    /\ \A i \in DOMAIN matched : \A r \in regexes :
          (InScope(r, parts[i]) /\ Hits(r, parts[i])) =>
              /\ (matched[i].kind = "break" /\ matched[i].regex_id = r.id) =>
                    /\ Truthy(matched[i].name)
                    /\ matched[i].name =
                          IF Truthy(Get(Captured(r, parts[i]), "name"))
                          THEN Captured(r, parts[i])["name"]
                          ELSE Get(Captured(r, parts[i]), "reqid")
              /\ (/\ ~Truthy(Get(Captured(r, parts[i]), "name"))
                  /\ ~Truthy(Get(Captured(r, parts[i]), "reqid"))) =>
                    /\ TryRule(r, parts[i], started).kind = "continue"
                    /\ matched[i].regex_id # r.id
              /\ (/\ ~Truthy(Get(Captured(r, parts[i]), "name"))
                  /\ Truthy(Get(Captured(r, parts[i]), "reqid"))
                  /\ Truthy(Get(Captured(r, parts[i]), "parts"))) =>
                    TryRule(r, parts[i], started).kind # "continue"

\* a part the name-only rule hit without a name and passed over was accepted
\* by the next rule under its request id, and stored under it; another part
\* that had neither was accepted by no rule
C13_Witness ==
    /\ pc = "done"
    /\ \E i \in DOMAIN matched : \E r \in regexes :
          /\ r.id # matched[i].regex_id
          /\ InScope(r, parts[i]) /\ Hits(r, parts[i])
          /\ ~Truthy(Get(Captured(r, parts[i]), "name"))
          /\ matched[i].kind = "break"
          /\ matched[i].name = parts[i].subject.reqid
          /\ \E b \in store : b.name = matched[i].name /\ parts[i].binary_id = b.id
    /\ \E i \in DOMAIN matched :
          /\ matched[i].kind = "nomatch"
          /\ \E r \in regexes : InScope(r, parts[i]) /\ Hits(r, parts[i])


\* lines 142-150 and 164: a part count that, normalised, has not exactly one
\* '/' or has a total that is no number
Degenerate(p) ==
    \/ Len(Split(NormalizeParts(p), "/")) # 2
    \/ ~IsInt(Split(NormalizeParts(p), "/")[2])

\* C14: a degenerate part count is passed through. When the rule that
\* settled a part gave it a name and a part count that is malformed after
\* normalisation, the part is accepted and process() has not aborted with
\* the error of the split or of int().
C14_DegeneratePassThrough ==
    \A i \in DOMAIN matched : \A r \in regexes :
        (/\ InScope(r, parts[i]) /\ Hits(r, parts[i])
         /\ matched[i].regex_id = r.id
         /\ Truthy(Get(Fields(r, parts[i]), "name"))
         /\ Truthy(Get(Fields(r, parts[i]), "parts"))
         /\ Degenerate(Fields(r, parts[i])["parts"])) =>
            /\ matched[i].kind = "break"
            /\ failure \notin {UnpackError, IntError}


\* the run in progress, or just ended, was started when every stored part
\* had a binary
EmptyBacklogRun ==
    /\ pc \in {"loop", "inserted", "done", "failed"}
    /\ \A i \in DOMAIN prev.owners : prev.owners[i] # NULL

AcceptedAs(n) == {i \in DOMAIN matched : matched[i].kind = "break" /\ matched[i].name = n}

\* the one of them processed first: the stream is in the order of the ids
FirstAccepted(n) == CHOOSE i \in AcceptedAs(n) : \A j \in AcceptedAs(n) : i <= j

\* C16: the accumulation entry of a name keeps the attributes of the first
\* accepted match for that name. At every point of a run, total_parts and
\* regex_id are those of the first match, and posted, posted_by, group_name
\* and xref those of its part, whatever later matches for the name declared;
\* the later matches are in the entry's parts map only.
C16_FirstMatchSeeds ==
    \A n \in DOMAIN binaries :
        /\ AcceptedAs(n) # {}
        /\ binaries[n].name = n
        /\ binaries[n].total_parts = IntVal(matched[FirstAccepted(n)].total)
        /\ binaries[n].regex_id = matched[FirstAccepted(n)].regex_id
        /\ binaries[n].posted = parts[FirstAccepted(n)].posted
        /\ binaries[n].posted_by = parts[FirstAccepted(n)].posted_by
        /\ binaries[n].group_name = parts[FirstAccepted(n)].group_name
        /\ binaries[n].xref = parts[FirstAccepted(n)].xref
        /\ Attached(binaries[n]) \subseteq AcceptedAs(n)

\* an entry holds a later part whose match came from another rule and
\* declared another total, and whose poster and xref differ from the first
\* part's
C16_Witness ==
    \E n \in DOMAIN binaries : \E j \in Attached(binaries[n]) :
        /\ j # FirstAccepted(n)
        /\ matched[j].regex_id # binaries[n].regex_id
        /\ IsInt(matched[j].total)
        /\ IntVal(matched[j].total) # binaries[n].total_parts
        /\ parts[j].posted_by # binaries[n].posted_by
        /\ parts[j].xref # binaries[n].xref


\* the parts of this run accepted under the name n with the index string c
AcceptedAt(n, c) == {i \in AcceptedAs(n) : matched[i].current = c}

\* C17: last write wins per index. The parts map of an entry has one key
\* for each index string of the matches accepted under the entry's name,
\* and holds under each the part processed last among those with that name
\* and index string; a match under one index string leaves the others
\* alone.
C17_LastWriteWins ==
    \A n \in DOMAIN binaries :
        /\ DOMAIN binaries[n].parts = {matched[i].current : i \in AcceptedAs(n)}
        /\ \A c \in DOMAIN binaries[n].parts :
              /\ binaries[n].parts[c] \in AcceptedAt(n, c)
              /\ \A i \in AcceptedAt(n, c) : i <= binaries[n].parts[c]

\* two parts were accepted under one name and index string, the later one
\* is in the map, and a part under another index string processed before
\* them is still in it
C17_Witness ==
    \E n \in DOMAIN binaries : \E c \in DOMAIN binaries[n].parts :
        /\ Cardinality(AcceptedAt(n, c)) > 1
        /\ \E d \in DOMAIN binaries[n].parts :
              d # c /\ \A i \in AcceptedAt(n, c) : binaries[n].parts[d] < i


\* match['parts'] as line 142 finds it for part and the rule reg
CountOf(reg, part) == Get(FindParts(Fields(reg, part), part.subject.text), "parts")

NotBracket(ch) == ch \notin {"[", "]", "(", ")"}

\* the rule reg settled the part i with a part count
Counted(reg, i) ==
    /\ InScope(reg, parts[i]) /\ Hits(reg, parts[i])
    /\ matched[i].regex_id = reg.id
    /\ Truthy(Get(Fields(reg, parts[i]), "name"))
    /\ Truthy(CountOf(reg, parts[i]))

\* C18 as stated: the separators are unified when the count has no '/',
\* the brackets are removed, the count is split; '(3 of 5)' gives current 3
\* and total 5, and a captured '01/20' gives current 1 and total 20.
C18_Normalization ==
    \A i \in DOMAIN matched : \A r \in regexes : Counted(r, i) =>
        /\ CountOf(r, parts[i]) = <<"(", "3", " ", "o", "f", " ", "5", ")">> =>
              /\ matched[i].kind = "break"
              /\ matched[i].current = <<"3">> /\ matched[i].total = <<"5">>
        /\ CountOf(r, parts[i]) = <<"0", "1", "/", "2", "0">> =>
              /\ matched[i].kind = "break"
              /\ matched[i].current = <<"1">> /\ matched[i].total = <<"2", "0">>

\* C18 amended: current is the text before the '/', leading zeros kept, and
\* the total alone is read as a number, for a new name. '(3 of 5)' gives
\* current '3' and total 5, a captured '01/20' gives current '01' and total
\* 20, '1-2' and '1~2' give '1' and 2; a count that has a '/' keeps its '-',
\* and no accepted current or total has a bracket or a '/'.
C18_NormalizationKeepsText ==
    \A i \in DOMAIN matched : \A r \in regexes : Counted(r, i) =>
        /\ CountOf(r, parts[i]) = <<"(", "3", " ", "o", "f", " ", "5", ")">> =>
              /\ matched[i].kind = "break"
              /\ matched[i].current = <<"3">> /\ matched[i].total = <<"5">>
        /\ CountOf(r, parts[i]) = <<"0", "1", "/", "2", "0">> =>
              /\ matched[i].kind = "break"
              /\ matched[i].current = <<"0", "1">> /\ matched[i].total = <<"2", "0">>
        /\ CountOf(r, parts[i]) \in {<<"1", "-", "2">>, <<"1", "~", "2">>,
                                      <<"[", "1", "/", "2", "]">>} =>
              /\ matched[i].kind = "break"
              /\ matched[i].current = <<"1">> /\ matched[i].total = <<"2">>
        /\ matched[i].kind = "break" =>
              /\ SelectSeq(matched[i].current, NotBracket) = matched[i].current
              /\ SelectSeq(matched[i].total, NotBracket) = matched[i].total
              /\ Lacks(matched[i].current, "/") /\ Lacks(matched[i].total, "/")
              /\ ~Lacks(CountOf(r, parts[i]), "/") =>
                    matched[i].current \o <<"/">> \o matched[i].total
                        = SelectSeq(CountOf(r, parts[i]), NotBracket)
              /\ \A n \in DOMAIN binaries :
                    (n = matched[i].name /\ i = FirstAccepted(n)) =>
                        /\ IsInt(matched[i].total)
                        /\ binaries[n].total_parts = IntVal(matched[i].total)

\* a run ended with a binary of 5 parts that holds the part counted
\* '(3 of 5)' under '3' and the part counted '01/20' under '01'
C18_Witness ==
    /\ pc = "done"
    /\ \E n \in DOMAIN binaries :
          /\ binaries[n].total_parts = 5
          /\ {<<"3">>, <<"0", "1">>} \subseteq DOMAIN binaries[n].parts
          /\ parts[binaries[n].parts[<<"0", "1">>]].subject.parts = <<"0", "1", "/", "2", "0">>
          /\ \E b \in store : b.name = n /\ b.total_parts = 5


\* the places of the accumulation that hold the part i
PlacesOf(i) ==
    {<<n, c>> \in UNION {{<<m, d>> : d \in DOMAIN binaries[m].parts} : m \in DOMAIN binaries} :
        binaries[n].parts[c] = i}

\* C19: within one run each streamed part is classified once and attached
\* to at most one entry. No part is twice in the stream or in it again once
\* classified, the count of classifications is the count of classified
\* parts, a part is in the accumulation under at most one name and index,
\* the updates of a flush name each part once, with one binary, and a part
\* that had a binary when the run started keeps it.
C19_ClassifiedOnce ==
    /\ \A k \in DOMAIN stream : \A l \in DOMAIN stream : stream[k] = stream[l] => k = l
    /\ \A k \in DOMAIN stream : stream[k] \notin DOMAIN matched
    /\ pc # "idle" => total_processed = Cardinality(DOMAIN matched)
    /\ \A i \in DOMAIN parts : Cardinality(PlacesOf(i)) <= 1
    /\ \A u \in update_parts : \A v \in update_parts : u._id = v._id => u = v
    /\ pc \in {"loop", "inserted", "done", "failed"} =>
          \A i \in DOMAIN prev.owners :
              \/ parts[i].binary_id = prev.owners[i]
              \/ /\ prev.owners[i] = NULL
                 /\ Cardinality(PlacesOf(i)) = 1
                 /\ \E u \in update_parts : u._id = i /\ u._binary_id = parts[i].binary_id

\* a run classified three parts, two of them into one entry under two
\* indexes, and its flush gave each attached part its binary
C19_Witness ==
    /\ pc = "done"
    /\ total_processed = 3
    /\ \E n \in DOMAIN binaries : Cardinality(DOMAIN binaries[n].parts) >= 2
    /\ Cardinality(update_parts) >= 2
    /\ \A u \in update_parts : parts[u._id].binary_id = u._binary_id

====
